---- MODULE Spec2Model ----
(***************************************************************************)
(* Model of the crossword CSP solver of generate.py (CrosswordCreator):    *)
(* node consistency, revise / AC-3, the search heuristics and the          *)
(* recursive backtracking search with its Domain Store snapshots.          *)
(*                                                                         *)
(* Words are sequences of letters; Python's 0-based offsets are kept and   *)
(* turned into 1-based positions only where a letter is read.  The         *)
(* Domain Store objects of the Python heap are modelled explicitly         *)
(* (heap, cur, the frames' snap) because backtrack rebinds self.domains    *)
(* to a snapshot object instead of copying it.                             *)
(***************************************************************************)
EXTENDS Integers, Sequences, FiniteSets, TLC

VARIABLES
    variables,   \* crossword.variables: the Variables of the Puzzle Model
    words,       \* crossword.words: the vocabulary
    varOrder,    \* iteration order of the set crossword.variables, and so of the
                 \* dicts crossword.overlaps and self.domains built from it:
                 \* arbitrary in Python, the same all through a run
    nbrOrder,    \* for every Variable the iteration order of the set
                 \* crossword.neighbors(var) builds: arbitrary as well, the same
                 \* at every call of a run, and not tied to varOrder
    heap,        \* the Domain Store objects (dicts Variable -> set of words) by object id
    cur,         \* the object self.domains refers to
    assignment,  \* the dict handed through backtrack
    stack,       \* the active frames of backtrack, innermost last: the selected
                 \* Variable, the values still to try, the snapshot object, and
                 \* as history the assignment at call entry and the Domain Store
                 \* as it was when the last value was tried
    pc,          \* position of solve()
    ret,         \* value returned by the backtrack call that returned last
    postAc3,     \* history: the Domain Store as left by the global ac3() of solve()
    ac3ret,      \* history: the last ac3 call (kind, return value) or NoCall
    fn           \* the last call of the function-level specifications, or NoCall

vars == <<variables, words, varOrder, nbrOrder, heap, cur, assignment, stack, pc, ret,
          postAc3, ac3ret, fn>>

-----------------------------------------------------------------------------
(* Bounds and inputs *)

\* most words a vocabulary holds
MaxVocab == 6

\* the words vocabularies are drawn from
WordPool ==
    { <<"A","A">>, <<"A","B">>, <<"B","B">>,
      <<"A","B","A">>, <<"B","A","A">>, <<"B","A","B">> }

\* the value None of Python as a return value, and as an entry of crossword.overlaps
None == "None"
NoOverlap == <<>>
NoArcs == [given |-> FALSE]
Queue(q) == [given |-> TRUE, queue |-> q]
NoCall == [op |-> "none"]
NoObj == -1

-----------------------------------------------------------------------------
(* Puzzle Model (crossword.py): Variables, overlaps, neighbors *)

Var(i, j, direction, length) ==
    [i |-> i, j |-> j, direction |-> direction, length |-> length]

\* Variable.cells: the cells a Variable covers, in word order
Cells(v) ==
    [k \in 1..v.length |->
        <<v.i + (IF v.direction = "down" THEN k - 1 ELSE 0),
          v.j + (IF v.direction = "across" THEN k - 1 ELSE 0)>>]

\* 0-based index of cell c in Cells(v)
CellIndex(v, c) == (CHOOSE k \in 1..v.length : Cells(v)[k] = c) - 1

CellSet(v) == {Cells(v)[k] : k \in 1..v.length}

\* the entry Crossword.__init__ computes for the pair (x, y): NoOverlap
\* (None) when no cell is shared, else the 0-based offsets of the shared cell
ComputeOverlap(x, y) ==
    LET common == CellSet(x) \cap CellSet(y) IN
    IF common = {} THEN NoOverlap
    ELSE LET c == CHOOSE c \in common : TRUE IN
         <<CellIndex(x, c), CellIndex(y, c)>>

\* the grids of the model: one slot, two crossing slots (equal and unequal
\* lengths), two slots apart, one slot crossed by two others, and the 2x3
\* grid without the last cell of its second row, where two across slots and
\* two down slots cross in a ring
PSingle == << Var(0, 0, "across", 3) >>
PCross  == << Var(0, 0, "across", 3), Var(0, 1, "down", 3) >>
PMixed  == << Var(0, 0, "across", 3), Var(0, 2, "down", 2) >>
PApart  == << Var(0, 0, "across", 2), Var(2, 0, "across", 3) >>
PPath   == << Var(0, 0, "across", 3), Var(0, 0, "down", 2), Var(0, 2, "down", 2) >>
PNotch  == << Var(0, 0, "across", 3), Var(1, 0, "across", 2),
              Var(0, 0, "down", 2), Var(0, 1, "down", 2) >>

Puzzles == { PSingle, PCross, PMixed, PApart, PPath, PNotch }

\* one slot crossed at its two ends by the last cells of two others
PChain  == << Var(0, 0, "down", 2), Var(0, 2, "down", 2), Var(1, 0, "across", 3) >>

AllVariables == UNION { { p[k] : k \in 1..Len(p) } : p \in Puzzles \cup {PChain} }

\* crossword.overlaps, a dict over the ordered pairs of distinct Variables
OverlapTable ==
    [pair \in { q \in AllVariables \X AllVariables : q[1] # q[2] } |->
        ComputeOverlap(pair[1], pair[2])]

\* crossword.overlaps[x, y]
overlaps(x, y) == OverlapTable[<<x, y>>]

\* crossword.neighbors(var)
neighbors(var) == {v \in variables : v # var /\ overlaps(v, var) # NoOverlap}

-----------------------------------------------------------------------------
(* Helpers *)

Range(s) == { s[k] : k \in 1..Len(s) }

\* every order of the elements of the sequence s: the orders in which the
\* set of its elements can be iterated
Orders(s) ==
    { [k \in 1..Len(s) |-> s[f[k]]] :
        f \in { g \in [1..Len(s) -> 1..Len(s)] :
                  \A a, b \in 1..Len(s) : a # b => g[a] # g[b] } }

\* the orders in which the set S can be iterated
IterationOrders(S) ==
    { f \in [1..Cardinality(S) -> S] :
        \A a, b \in 1..Cardinality(S) : a # b => f[a] # f[b] }

\* the iteration orders of the sets crossword.neighbors(var), one for every
\* Variable
NeighborOrders ==
    { f \in [variables -> UNION { IterationOrders(neighbors(v)) : v \in variables }] :
        \A v \in variables : f[v] \in IterationOrders(neighbors(v)) }

\* Del without the deletion: `del assignment[var]` left out
DelNothing(d, k) == d

\* the dict d without key k (del d[k])
Del(d, k) == [v \in (DOMAIN d) \ {k} |-> d[v]]

\* the dict d with d[k] = w
Put(d, k, w) == [v \in (DOMAIN d) \cup {k} |-> IF v = k THEN w ELSE d[v]]

\* iteration order of the set crossword.neighbors(x)
NeighborSeq(x) == nbrOrder[x]

\* self.domains
domains == heap[cur]

-----------------------------------------------------------------------------
(* Consistency Engine *)

\* NodeFilter with `<` for `!=`: only the words that are too short are removed
RECURSIVE NodeFilterShort(_, _, _)
NodeFilterShort(var, ws, dom) ==
    IF ws = {} THEN dom
    ELSE LET word == CHOOSE w \in ws : TRUE IN
         NodeFilterShort(var, ws \ {word},
                         IF Len(word) < var.length THEN dom \ {word} ELSE dom)

\* the loop of enforce_node_consistency over the copy `ws` of one domain:
\* every word whose length differs from var.length is removed from `dom`
RECURSIVE NodeFilter(_, _, _)
NodeFilter(var, ws, dom) ==
    IF ws = {} THEN dom
    ELSE LET word == CHOOSE w \in ws : TRUE IN
         NodeFilter(var, ws \ {word},
                    IF Len(word) # var.length THEN dom \ {word} ELSE dom)

\* enforce_node_consistency applied to the Domain Store d
enforce_node_consistency(d) ==
    [var \in DOMAIN d |-> NodeFilter(var, d[var], d[var])]

\* AnySupport with all() for any()
AllSupport(d, y, iy, xLetter) == \A yword \in d[y] : yword[iy + 1] = xLetter

\* any(yword[overlap[1]] == xLetter for yword in self.domains[y])
AnySupport(d, y, iy, xLetter) == \E yword \in d[y] : yword[iy + 1] = xLetter

\* ReviseLoop rebuilding domain(x) from the vocabulary instead of pruning the
\* current domain
ReviseLoopFromVocabulary(d, x, y, overlap, ws, acc) ==
    LET kept == { w \in { u \in words : Len(u) = x.length } :
                    AnySupport(d, y, overlap[2], w[overlap[1] + 1]) }
    IN  [dom |-> kept, revised |-> kept # d[x]]

\* ReviseLoop without the `not` of line 125: the supported words are removed
RECURSIVE ReviseLoopInverted(_, _, _, _, _, _)
ReviseLoopInverted(d, x, y, overlap, ws, acc) ==
    IF ws = {} THEN acc
    ELSE LET word == CHOOSE w \in ws : TRUE
             xLetter == word[overlap[1] + 1]
         IN  ReviseLoopInverted(d, x, y, overlap, ws \ {word},
                                IF AnySupport(d, y, overlap[2], xLetter)
                                THEN [dom |-> acc.dom \ {word}, revised |-> TRUE]
                                ELSE acc)

\* the loop of revise over the copy `ws` of domain(x); acc = [dom, revised]
RECURSIVE ReviseLoop(_, _, _, _, _, _)
ReviseLoop(d, x, y, overlap, ws, acc) ==
    IF ws = {} THEN acc
    ELSE LET word == CHOOSE w \in ws : TRUE
             xLetter == word[overlap[1] + 1]
         IN  ReviseLoop(d, x, y, overlap, ws \ {word},
                        IF ~AnySupport(d, y, overlap[2], xLetter)
                        THEN [dom |-> acc.dom \ {word}, revised |-> TRUE]
                        ELSE acc)

\* revise(x, y) on the Domain Store d: the new store and the returned flag
revise(d, x, y) ==
    LET overlap == overlaps(x, y) IN
    IF overlap # NoOverlap
    THEN LET r == ReviseLoop(d, x, y, overlap, d[x], [dom |-> d[x], revised |-> FALSE])
         IN  [domains |-> [d EXCEPT ![x] = r.dom], revised |-> r.revised]
    ELSE [domains |-> d, revised |-> FALSE]

\* the keys of crossword.overlaps in insertion order: every ordered pair of
\* distinct Variables, overlapping or not
RECURSIVE OverlapKeysFrom(_, _)
OverlapKeysFrom(a, b) ==
    IF a > Len(varOrder) THEN <<>>
    ELSE IF b > Len(varOrder) THEN OverlapKeysFrom(a + 1, 1)
    ELSE (IF a # b THEN << <<varOrder[a], varOrder[b]>> >> ELSE <<>>)
         \o OverlapKeysFrom(a, b + 1)

OverlapKeys == OverlapKeysFrom(1, 1)

\* the arcs put after a revision of x: (z, x) for z in neighbors(x)
PutNeighborArcs(x) == [k \in 1..Len(NeighborSeq(x)) |-> <<NeighborSeq(x)[k], x>>]

\* Ac3Step without lines 150-151: nothing is put back after a revision
Ac3StepNoRequeue(d, q) ==
    LET x == q[1][1]
        y == q[1][2]
        r == revise(d, x, y)
    IN  IF r.revised
        THEN IF Cardinality(r.domains[x]) = 0
             THEN [domains |-> r.domains, arcs |-> Tail(q), status |-> "False"]
             ELSE [domains |-> r.domains, arcs |-> Tail(q), status |-> "loop"]
        ELSE [domains |-> d, arcs |-> Tail(q), status |-> "loop"]

\* one turn of the while loop of ac3 on store d and queue q (q non-empty)
Ac3Step(d, q) ==
    LET x == q[1][1]
        y == q[1][2]
        r == revise(d, x, y)
    IN  IF r.revised
        THEN IF Cardinality(r.domains[x]) = 0
             THEN [domains |-> r.domains, arcs |-> Tail(q), status |-> "False"]
             ELSE [domains |-> r.domains, arcs |-> Tail(q) \o PutNeighborArcs(x),
                   status |-> "loop"]
        ELSE [domains |-> d, arcs |-> Tail(q), status |-> "loop"]

RECURSIVE Ac3Loop(_, _)
Ac3Loop(d, q) ==
    IF q = <<>> THEN [domains |-> d, ret |-> TRUE]
    ELSE LET s == Ac3Step(d, q) IN
         IF s.status = "False" THEN [domains |-> s.domains, ret |-> FALSE]
         ELSE Ac3Loop(s.domains, s.arcs)

\* the turns the while loop of ac3 takes on store d and queue q
RECURSIVE Ac3Turns(_, _)
Ac3Turns(d, q) ==
    IF q = <<>> THEN 0
    ELSE LET s == Ac3Step(d, q) IN
         IF s.status = "False" THEN 1 ELSE 1 + Ac3Turns(s.domains, s.arcs)

\* ac3(arcs) on store d; arcs is NoArcs (None) or a Queue (a Queue object is
\* always true, also when it is empty: only None is re-seeded)
ac3(d, arcs) == Ac3Loop(d, IF ~arcs.given THEN OverlapKeys ELSE arcs.queue)

\* get_neighbors_overlap_queue(var)
get_neighbors_overlap_queue(var) == Queue(SelectSeq(OverlapKeys, LAMBDA o : o[2] = var))

\* make_domains_copy()
make_domains_copy(d) == [var \in DOMAIN d |-> d[var]]

-----------------------------------------------------------------------------
(* Search Engine: the pure parts *)

\* assignment_complete(assignment)
assignment_complete(a) == \A k \in 1..Len(varOrder) : varOrder[k] \in DOMAIN a

\* `var in assignment and assignment[var]`: assigned, and not the empty word
Assigned(a, var) == var \in DOMAIN a /\ a[var] # <<>>

\* the loop over the neighbors of var in consistent, from the i-th neighbor:
\* "False" at the first disagreeing overlap, "IndexError" when an offset lies
\* beyond the end of an assigned word, "ok" when the loop runs out
RECURSIVE NeighborLoop(_, _, _, _)
NeighborLoop(a, var, ns, i) ==
    IF i > Len(ns) THEN "ok"
    ELSE LET neighbor == ns[i] IN
         IF ~Assigned(a, neighbor) THEN NeighborLoop(a, var, ns, i + 1)
         ELSE LET overlap == overlaps(var, neighbor) IN
              IF overlap[1] >= Len(a[var]) \/ overlap[2] >= Len(a[neighbor])
              THEN "IndexError"
              ELSE IF a[var][overlap[1] + 1] # a[neighbor][overlap[2] + 1]
                   THEN "False"
                   ELSE NeighborLoop(a, var, ns, i + 1)

\* ConsistentLoop without the final comparison of used_words with
\* assigned_words_count
RECURSIVE ConsistentLoopUncounted(_, _)
ConsistentLoopUncounted(a, k) ==
    IF k > Len(varOrder) THEN "True"
    ELSE LET var == varOrder[k] IN
         IF Assigned(a, var)
         THEN LET n == NeighborLoop(a, var, NeighborSeq(var), 1) IN
              IF n # "ok" THEN n
              ELSE IF var.length # Len(a[var]) THEN "False"
              ELSE ConsistentLoopUncounted(a, k + 1)
         ELSE ConsistentLoopUncounted(a, k + 1)

\* the loop over self.domains in consistent, from the k-th Variable; when it
\* runs out, used_words is compared with assigned_words_count
RECURSIVE ConsistentLoop(_, _)
ConsistentLoop(a, k) ==
    IF k > Len(varOrder)
    THEN LET counted == {v \in Range(varOrder) : Assigned(a, v)}
             used_words == {a[v] : v \in counted}
         IN  IF Cardinality(used_words) # Cardinality(counted) THEN "False" ELSE "True"
    ELSE LET var == varOrder[k] IN
         IF Assigned(a, var)
         THEN LET n == NeighborLoop(a, var, NeighborSeq(var), 1) IN
              IF n # "ok" THEN n
              ELSE IF var.length # Len(a[var]) THEN "False"
              ELSE ConsistentLoop(a, k + 1)
         ELSE ConsistentLoop(a, k + 1)

\* consistent(assignment): "True", "False", or "IndexError" when it raises
consistent(a) == ConsistentLoop(a, 1)

\* `neigbor_word in assignment`: the keys of assignment are Variables, the
\* tested object is a word
InAssignment(neigbor_word, a) ==
    <<"str", neigbor_word>> \in { <<"Variable", k>> : k \in DOMAIN a }

\* word_scores[word] of order_domain_values
WordScore(d, var, a, word) ==
    LET Count(neighbor) ==
            LET overlap == overlaps(var, neighbor) IN
            Cardinality({ neigbor_word \in d[neighbor] :
                            /\ ~InAssignment(neigbor_word, a)
                            /\ word[overlap[1] + 1] # neigbor_word[overlap[2] + 1] })
        RECURSIVE Sum(_)
        Sum(ns) == IF ns = {} THEN 0
                   ELSE LET n == CHOOSE n \in ns : TRUE IN Count(n) + Sum(ns \ {n})
    IN  Sum(neighbors(var))

\* the lists sorted(S, key=score) can return: sorted is stable, and the
\* iteration order of the set S is arbitrary
RECURSIVE SortedBy(_, _)
SortedBy(S, score) ==
    IF S = {} THEN { <<>> }
    ELSE UNION { { <<x>> \o rest : rest \in SortedBy(S \ {x}, score) } :
                 x \in { m \in S : \A o \in S : score[m] <= score[o] } }

\* order_domain_values(var, assignment): the lists it can return
order_domain_values(d, var, a) ==
    SortedBy(d[var], [word \in d[var] |-> WordScore(d, var, a, word)])

\* LowestDomainCount without lines 235-236: assigned Variables are counted too
RECURSIVE LowestDomainCountAll(_, _, _, _)
LowestDomainCountAll(d, a, k, acc) ==
    IF k > Len(varOrder) THEN acc
    ELSE LET var == varOrder[k]
             domain_count == Cardinality(d[var])
         IN  IF acc.count = -1 \/ domain_count < acc.count
             THEN LowestDomainCountAll(d, a, k + 1,
                                       [count |-> domain_count, vars |-> <<var>>])
             ELSE IF domain_count = acc.count
                  THEN LowestDomainCountAll(d, a, k + 1,
                                            [acc EXCEPT !.vars = Append(@, var)])
             ELSE LowestDomainCountAll(d, a, k + 1, acc)

\* LowestDomainCount with `>` for `<`: the largest domains are collected
RECURSIVE HighestDomainCount(_, _, _, _)
HighestDomainCount(d, a, k, acc) ==
    IF k > Len(varOrder) THEN acc
    ELSE LET var == varOrder[k]
             domain_count == Cardinality(d[var])
         IN  IF var \in DOMAIN a THEN HighestDomainCount(d, a, k + 1, acc)
             ELSE IF acc.count = -1 \/ domain_count > acc.count
                  THEN HighestDomainCount(d, a, k + 1,
                                          [count |-> domain_count, vars |-> <<var>>])
             ELSE IF domain_count = acc.count
                  THEN HighestDomainCount(d, a, k + 1,
                                          [acc EXCEPT !.vars = Append(@, var)])
             ELSE HighestDomainCount(d, a, k + 1, acc)

\* the first loop of select_unassigned_variable from the k-th Variable:
\* acc = [count, vars], count = -1 standing for float('inf')
RECURSIVE LowestDomainCount(_, _, _, _)
LowestDomainCount(d, a, k, acc) ==
    IF k > Len(varOrder) THEN acc
    ELSE LET var == varOrder[k]
             domain_count == Cardinality(d[var])
         IN  IF var \in DOMAIN a THEN LowestDomainCount(d, a, k + 1, acc)
             ELSE IF acc.count = -1 \/ domain_count < acc.count
                  THEN LowestDomainCount(d, a, k + 1,
                                         [count |-> domain_count, vars |-> <<var>>])
             ELSE IF domain_count = acc.count
                  THEN LowestDomainCount(d, a, k + 1,
                                         [acc EXCEPT !.vars = Append(@, var)])
             ELSE LowestDomainCount(d, a, k + 1, acc)

\* MostNeighbors with the comparison turned round: the fewest neighbors win
RECURSIVE FewestNeighbors(_, _, _)
FewestNeighbors(vs, k, acc) ==
    IF k > Len(vs) THEN acc
    ELSE LET neighbors_count == Cardinality(neighbors(vs[k])) IN
         IF acc.count = -1 \/ acc.count > neighbors_count
         THEN FewestNeighbors(vs, k + 1, [count |-> neighbors_count, var |-> vs[k]])
         ELSE FewestNeighbors(vs, k + 1, acc)

\* the second loop: acc = [count, var], count = -1 standing for float("-inf")
RECURSIVE MostNeighbors(_, _, _)
MostNeighbors(vs, k, acc) ==
    IF k > Len(vs) THEN acc
    ELSE LET neighbors_count == Cardinality(neighbors(vs[k])) IN
         IF acc.count < neighbors_count
         THEN MostNeighbors(vs, k + 1, [count |-> neighbors_count, var |-> vs[k]])
         ELSE MostNeighbors(vs, k + 1, acc)

\* select_unassigned_variable(assignment), called with an incomplete assignment
select_unassigned_variable(d, a) ==
    LET lowest == LowestDomainCount(d, a, 1, [count |-> -1, vars |-> <<>>])
    IN  MostNeighbors(lowest.vars, 1, [count |-> -1, var |-> NoObj]).var

-----------------------------------------------------------------------------
(* The Python heap of Domain Store objects *)

ObjIds == DOMAIN heap
NoStore == <<>>
EmptyDict == <<>>

\* the objects self.domains or a frame's domains_before_consistencies refer to
Live(c, st) == {c} \cup { st[k].snap : k \in 1..Len(st) }

\* the id given to a new dict
NewObj(c, st) == CHOOSE o \in ObjIds \ Live(c, st) :
                    \A p \in ObjIds \ Live(c, st) : o <= p

\* dicts nothing refers to any more are dropped
Collect(h, c, st) == [o \in DOMAIN h |-> IF o \in Live(c, st) THEN h[o] ELSE NoStore]

-----------------------------------------------------------------------------
(* solve() *)

Vocabularies == { S \in SUBSET WordPool : Cardinality(S) <= MaxVocab }

\* __init__: every domain is a copy of the vocabulary
Init ==
    /\ \E puzzle \in Puzzles :
          /\ variables = Range(puzzle)
          /\ varOrder \in Orders(puzzle)
          /\ nbrOrder \in NeighborOrders
    /\ words \in Vocabularies
    /\ heap = [o \in 0..Cardinality(variables) |->
                 IF o = 0 THEN [var \in variables |-> words] ELSE NoStore]
    /\ cur = 0
    /\ assignment = EmptyDict
    /\ stack = <<>>
    /\ pc = "enforce_node_consistency"
    /\ ret = "none"
    /\ postAc3 = NoStore
    /\ ac3ret = NoCall
    /\ fn = NoCall

\* solve, line 92
SolveNode ==
    /\ pc = "enforce_node_consistency"
    /\ heap' = [heap EXCEPT ![cur] = enforce_node_consistency(domains)]
    /\ pc' = "ac3"
    /\ UNCHANGED <<variables, words, varOrder, nbrOrder, cur, assignment, stack, ret,
                   postAc3, ac3ret, fn>>

\* SolveAc3 with the result of ac3 checked: `if not self.ac3(): return False`
SolveAc3Checked ==
    /\ pc = "ac3"
    /\ LET r == ac3(domains, NoArcs) IN
        /\ heap' = [heap EXCEPT ![cur] = r.domains]
        /\ postAc3' = r.domains
        /\ ac3ret' = [op |-> "global", ret |-> r.ret, domains |-> r.domains]
        /\ pc' = IF r.ret THEN "backtrack" ELSE "done"
        /\ ret' = IF r.ret THEN ret ELSE "False"
    /\ UNCHANGED <<variables, words, varOrder, nbrOrder, cur, assignment, stack, fn>>

\* solve, line 93: the result of ac3 is dropped; line 94 calls backtrack(dict())
SolveAc3 ==
    /\ pc = "ac3"
    /\ LET r == ac3(domains, NoArcs) IN
        /\ heap' = [heap EXCEPT ![cur] = r.domains]
        /\ postAc3' = r.domains
        /\ ac3ret' = [op |-> "global", ret |-> r.ret, domains |-> r.domains]
    /\ pc' = "backtrack"
    /\ UNCHANGED <<variables, words, varOrder, nbrOrder, cur, assignment, stack, ret, fn>>

\* backtrack, lines 262-265: return the complete assignment, or select the
\* Variable and order its values
BacktrackEnter ==
    /\ pc = "backtrack"
    /\ IF assignment_complete(assignment)
       THEN /\ ret' = "Assignment"
            /\ pc' = "returned"
            /\ UNCHANGED stack
       ELSE LET var == select_unassigned_variable(domains, assignment) IN
            \E values \in order_domain_values(domains, var, assignment) :
                /\ stack' = Append(stack, [var |-> var, values |-> values, snap |-> NoObj,
                                           entry |-> assignment, before |-> NoStore])
                /\ pc' = "for"
                /\ UNCHANGED ret
    /\ UNCHANGED <<variables, words, varOrder, nbrOrder, heap, cur, assignment, postAc3,
                   ac3ret, fn>>

\* backtrack, lines 265-278 and 283-285: one turn of the for loop up to the
\* recursive call, or the return of None when the values are used up
BacktrackFor ==
    /\ pc = "for"
    /\ LET top == Len(stack)
           f == stack[top]
           var == f.var
       IN
       IF f.values = <<>>
       THEN /\ stack' = SubSeq(stack, 1, top - 1)
            /\ heap' = Collect(heap, cur, stack')
            /\ ret' = None
            /\ pc' = "returned"
            /\ UNCHANGED <<cur, assignment, ac3ret>>
       ELSE LET value == Head(f.values)
                tried == Put(assignment, var, value)
                c == consistent(tried)
            IN
            IF c = "IndexError"
            THEN /\ pc' = "raised"
                 /\ assignment' = tried
                 /\ UNCHANGED <<stack, heap, cur, ret, ac3ret>>
            ELSE IF c = "True"
            THEN LET snap == NewObj(cur, stack)
                     forced == [domains EXCEPT ![var] = {value}]
                     r == ac3(forced, get_neighbors_overlap_queue(var))
                     cur1 == IF ~r.ret THEN snap ELSE cur
                     stack1 == [stack EXCEPT ![top] =
                                  [var |-> var, values |-> Tail(f.values), snap |-> snap,
                                   entry |-> f.entry, before |-> domains]]
                 IN  /\ assignment' = tried
                     /\ stack' = stack1
                     /\ cur' = cur1
                     /\ heap' = Collect([heap EXCEPT ![snap] = make_domains_copy(domains),
                                                     ![cur] = r.domains], cur1, stack1)
                     /\ ac3ret' = [op |-> "incremental", ret |-> r.ret,
                                   domains |-> r.domains]
                     /\ pc' = "backtrack"
                     /\ UNCHANGED ret
            ELSE /\ assignment' = Del(tried, var)
                 /\ stack' = [stack EXCEPT ![top].values = Tail(f.values)]
                 /\ pc' = "for"
                 /\ UNCHANGED <<heap, cur, ret, ac3ret>>
    /\ UNCHANGED <<variables, words, varOrder, nbrOrder, postAc3, fn>>

\* BacktrackResume calling backtrack again after a failure instead of going
\* on with the next value
BacktrackResumeRetry ==
    /\ pc = "returned"
    /\ stack # <<>>
    /\ LET top == Len(stack)
           f == stack[top]
       IN
       IF ret = "Assignment" /\ DOMAIN assignment # {}
       THEN /\ stack' = SubSeq(stack, 1, top - 1)
            /\ heap' = Collect(heap, cur, stack')
            /\ pc' = "returned"
            /\ UNCHANGED <<cur, assignment, ret>>
       ELSE /\ cur' = f.snap
            /\ stack' = [stack EXCEPT ![top].snap = NoObj]
            /\ heap' = Collect(heap, cur', stack')
            /\ pc' = "backtrack"
            /\ UNCHANGED <<assignment, ret>>
    /\ UNCHANGED <<variables, words, varOrder, nbrOrder, postAc3, ac3ret, fn>>

\* backtrack, lines 279-283: the recursive call has returned
BacktrackResume ==
    /\ pc = "returned"
    /\ stack # <<>>
    /\ LET top == Len(stack)
           f == stack[top]
       IN
       IF ret = "Assignment" /\ DOMAIN assignment # {}
       THEN /\ stack' = SubSeq(stack, 1, top - 1)
            /\ heap' = Collect(heap, cur, stack')
            /\ pc' = "returned"
            /\ UNCHANGED <<cur, assignment, ret>>
       ELSE /\ cur' = f.snap
            /\ assignment' = Del(assignment, f.var)
            /\ stack' = [stack EXCEPT ![top].snap = NoObj]
            /\ heap' = Collect(heap, cur', stack')
            /\ pc' = "for"
            /\ UNCHANGED ret
    /\ UNCHANGED <<variables, words, varOrder, nbrOrder, postAc3, ac3ret, fn>>

\* solve, line 94: the outermost backtrack call has returned
SolveReturn ==
    /\ pc = "returned"
    /\ stack = <<>>
    /\ pc' = "done"
    /\ UNCHANGED <<variables, words, varOrder, nbrOrder, heap, cur, assignment, stack, ret,
                   postAc3, ac3ret, fn>>

Next ==
    \/ SolveNode
    \/ SolveAc3
    \/ BacktrackEnter
    \/ BacktrackFor
    \/ BacktrackResume
    \/ SolveReturn

Spec == Init /\ [][Next]_vars

-----------------------------------------------------------------------------
(* The functions called on their own: revise, ac3, select_unassigned_variable
   and order_domain_values on drawn Domain Stores and assignments *)

\* longest queue handed to ac3, besides those of get_neighbors_overlap_queue
MaxQueue == 1

FnPuzzles == { PCross, PMixed, PApart, PPath }

FnWords == { <<"B","A">>, <<"B","B">>, <<"A","A","B">>, <<"B","B","A">> }

\* the dicts from some of the Variables to the words of W
PartialDicts(W) == UNION { [S -> W] : S \in SUBSET variables }

\* the queues of at most n arcs
RECURSIVE QueuesUpTo(_)
QueuesUpTo(n) ==
    IF n = 0 THEN { <<>> }
    ELSE QueuesUpTo(n - 1) \cup
         { Append(q, arc) : q \in { p \in QueuesUpTo(n - 1) : Len(p) = n - 1 },
                            arc \in Range(OverlapKeys) }

\* the arguments ac3 is called with
Ac3Arguments ==
    {NoArcs} \cup { Queue(q) : q \in QueuesUpTo(MaxQueue) }
             \cup { get_neighbors_overlap_queue(var) : var \in variables }

InitFn ==
    /\ \E puzzle \in FnPuzzles :
          /\ variables = Range(puzzle)
          /\ varOrder \in Orders(puzzle)
          /\ nbrOrder \in NeighborOrders
    /\ words = FnWords
    /\ \E d \in [variables -> SUBSET words] :
          /\ \A v \in variables : \A w \in d[v] : Len(w) = v.length
          /\ heap = [o \in 0..Cardinality(variables) |-> IF o = 0 THEN d ELSE NoStore]
          /\ assignment \in { a \in PartialDicts(words) :
                                \A v \in DOMAIN a : a[v] \in d[v] }
    /\ cur = 0
    /\ stack = <<>>
    /\ pc = "fn"
    /\ ret = "none"
    /\ postAc3 = NoStore
    /\ ac3ret = NoCall
    /\ fn = NoCall

\* a call revise(x, y); revise reads no assignment and is called with the
\* empty one
CallRevise ==
    /\ pc = "fn"
    /\ assignment = EmptyDict
    /\ \E x, y \in variables :
          /\ x # y
          /\ LET r == revise(domains, x, y) IN
                /\ heap' = [heap EXCEPT ![cur] = r.domains]
                /\ fn' = [op |-> "revise", x |-> x, y |-> y, before |-> domains,
                          revised |-> r.revised]
    /\ UNCHANGED <<variables, words, varOrder, nbrOrder, cur, assignment, stack, pc, ret,
                   postAc3, ac3ret>>

\* a call ac3(arcs); ac3 reads no assignment and is called with the empty one
CallAc3 ==
    /\ pc = "fn"
    /\ assignment = EmptyDict
    /\ \E arcs \in Ac3Arguments :
          LET r == ac3(domains, arcs) IN
             /\ heap' = [heap EXCEPT ![cur] = r.domains]
             /\ fn' = [op |-> "ac3", before |-> domains, ret |-> r.ret]
    /\ UNCHANGED <<variables, words, varOrder, nbrOrder, cur, assignment, stack, pc, ret,
                   postAc3, ac3ret>>

\* a call select_unassigned_variable(assignment), assignment incomplete
CallSelect ==
    /\ pc = "fn"
    /\ ~assignment_complete(assignment)
    /\ fn' = [op |-> "select", var |-> select_unassigned_variable(domains, assignment)]
    /\ UNCHANGED <<variables, words, varOrder, nbrOrder, heap, cur, assignment, stack, pc,
                   ret, postAc3, ac3ret>>

\* a call order_domain_values(var, assignment)
CallOrder ==
    /\ pc = "fn"
    /\ \E var \in variables :
          \E values \in order_domain_values(domains, var, assignment) :
             fn' = [op |-> "order", var |-> var, values |-> values]
    /\ UNCHANGED <<variables, words, varOrder, nbrOrder, heap, cur, assignment, stack, pc,
                   ret, postAc3, ac3ret>>

NextFn ==
    \/ CallRevise
    \/ CallAc3
    \/ CallSelect
    \/ CallOrder

SpecFn == InitFn /\ [][NextFn]_vars

-----------------------------------------------------------------------------
(* consistent called on its own, on assignments of any vocabulary words *)

\* the vocabulary: a blank line of the words file gives the empty word
ConsistentWords == FnWords \cup { <<>> }

InitConsistent ==
    /\ \E puzzle \in FnPuzzles :
          /\ variables = Range(puzzle)
          /\ varOrder \in Orders(puzzle)
          /\ nbrOrder \in NeighborOrders
    /\ words = ConsistentWords
    /\ assignment \in PartialDicts(words)
    /\ heap = [o \in 0..Cardinality(variables) |->
                 IF o = 0 THEN [var \in variables |-> words] ELSE NoStore]
    /\ cur = 0
    /\ stack = <<>>
    /\ pc = "fn"
    /\ ret = "none"
    /\ postAc3 = NoStore
    /\ ac3ret = NoCall
    /\ fn = NoCall

\* a call consistent(assignment)
CallConsistent ==
    /\ pc = "fn"
    /\ fn' = [op |-> "consistent", result |-> consistent(assignment)]
    /\ UNCHANGED <<variables, words, varOrder, nbrOrder, heap, cur, assignment, stack, pc,
                   ret, postAc3, ac3ret>>

NextConsistent == CallConsistent

SpecConsistent == InitConsistent /\ [][NextConsistent]_vars

-----------------------------------------------------------------------------
(* revise and ac3 called one after the other, and single turns of the while
   loop of ac3, on drawn Domain Stores, under every iteration order *)

Ac3Puzzles == { PCross, PMixed, PPath, PChain }

InitAc3 ==
    /\ \E puzzle \in Ac3Puzzles :
          /\ variables = Range(puzzle)
          /\ varOrder \in Orders(puzzle)
          /\ nbrOrder \in NeighborOrders
    /\ words = FnWords
    /\ \E d \in [variables -> SUBSET words] :
          /\ \A v \in variables : \A w \in d[v] : Len(w) = v.length
          /\ heap = [o \in 0..Cardinality(variables) |-> IF o = 0 THEN d ELSE NoStore]
    /\ assignment = EmptyDict
    /\ cur = 0
    /\ stack = <<>>
    /\ pc = "fn"
    /\ ret = "none"
    /\ postAc3 = NoStore
    /\ ac3ret = NoCall
    /\ fn = NoCall

\* the worklists ac3 starts from in the program: all arcs (arcs=None, line
\* 93) or the arcs into the Variable just assigned (line 276)
SeededArguments == {NoArcs} \cup { get_neighbors_overlap_queue(var) : var \in variables }

\* a call ac3(arcs) with one of the worklists of the program
CallAc3Seeded ==
    /\ pc = "fn"
    /\ \E arcs \in SeededArguments :
          LET r == ac3(domains, arcs) IN
             /\ heap' = [heap EXCEPT ![cur] = r.domains]
             /\ fn' = [op |-> "ac3", arcs |-> arcs, before |-> domains, ret |-> r.ret]
    /\ UNCHANGED <<variables, words, varOrder, nbrOrder, cur, assignment, stack, pc, ret,
                   postAc3, ac3ret>>

\* the worklists a turn of the while loop is run on: the full one, those of
\* get_neighbors_overlap_queue, and every single arc
TurnWorklists ==
    {OverlapKeys} \cup { get_neighbors_overlap_queue(var).queue : var \in variables }
                  \cup { << arc >> : arc \in Range(OverlapKeys) }

\* one turn of the while loop of ac3 (lines 146-151) on a non-empty worklist
CallAc3Turn ==
    /\ pc = "fn"
    /\ \E q \in TurnWorklists :
          /\ q # <<>>
          /\ LET s == Ac3Step(domains, q) IN
                /\ heap' = [heap EXCEPT ![cur] = s.domains]
                /\ fn' = [op |-> "turn", x |-> q[1][1], y |-> q[1][2],
                          before |-> domains, arcs |-> q, left |-> s.arcs,
                          status |-> s.status]
    /\ UNCHANGED <<variables, words, varOrder, nbrOrder, cur, assignment, stack, pc, ret,
                   postAc3, ac3ret>>

NextAc3 ==
    \/ CallRevise
    \/ CallAc3Seeded
    \/ CallAc3Turn

SpecAc3 == InitAc3 /\ [][NextAc3]_vars

-----------------------------------------------------------------------------
(* Reference notions the claims are stated with *)

\* a full assignment satisfying the length, overlap and all-different constraints
IsSolution(a) ==
    /\ DOMAIN a = variables
    /\ \A v \in variables : a[v] \in words /\ Len(a[v]) = v.length
    /\ \A x, y \in variables :
          x # y => /\ a[x] # a[y]
                   /\ overlaps(x, y) # NoOverlap =>
                         a[x][overlaps(x, y)[1] + 1] = a[y][overlaps(x, y)[2] + 1]

\* the partial solution a can be extended over the Variables of rest
RECURSIVE Extends(_, _)
Extends(a, rest) ==
    IF rest = {} THEN IsSolution(a)
    ELSE LET v == CHOOSE v \in rest : TRUE IN
         \E w \in words :
            /\ Len(w) = v.length
            /\ \A u \in DOMAIN a :
                  /\ a[u] # w
                  /\ overlaps(v, u) # NoOverlap =>
                        w[overlaps(v, u)[1] + 1] = a[u][overlaps(v, u)[2] + 1]
            /\ Extends(Put(a, v, w), rest \ {v})

\* the Puzzle Model has a full assignment satisfying all constraints
HasSolution == Extends(EmptyDict, variables)

-----------------------------------------------------------------------------
(* Claims *)

\* C1: when the Puzzle Model has a solution, solve() returns an Assignment
\* that assigns every Variable and is consistent.
C1_SolveFindsSolution ==
    (pc = "done" /\ HasSolution) =>
        /\ ret = "Assignment"
        /\ DOMAIN assignment = variables
        /\ consistent(assignment) = "True"

\* C2: when the Puzzle Model has no solution, solve() never raises and
\* returns None, never an Assignment.
C2_SolveReportsNoSolution ==
    ~HasSolution => /\ pc # "raised"
                    /\ pc = "done" => ret = None

\* C2 witness: an unsolvable puzzle on which the search tried values, ran
\* incremental ac3 and returned None
C2_Witness ==
    /\ pc = "done" /\ ret = None /\ ~HasSolution
    /\ ac3ret.op = "incremental"

\* C3: when solve() returns None, the Domain Store equals the store left by
\* the global ac3() pass.
C3_StoreRestoredAfterFailure ==
    (pc = "done" /\ ret = None) => domains = postAc3

\* every word of domain(x) has a word of domain(y) agreeing at the overlap,
\* for every overlapping ordered pair (x, y)
ArcConsistent(d) ==
    \A x, y \in variables :
        (x # y /\ overlaps(x, y) # NoOverlap) =>
            \A w \in d[x] : \E v \in d[y] :
                w[overlaps(x, y)[1] + 1] = v[overlaps(x, y)[2] + 1]

\* C5: after any ac3 call of solve() that returned True, the store it left
\* is arc consistent and no further revise(x, y) changes anything.
C5_Ac3SuccessIsFixedPoint ==
    (ac3ret.op # "none" /\ ac3ret.ret) =>
        /\ ArcConsistent(ac3ret.domains)
        /\ \A x, y \in variables :
              x # y => ~revise(ac3ret.domains, x, y).revised

\* the words of the vocabulary a Variable can take
NodeWords(v) == { w \in words : Len(w) = v.length }

\* C8: enforce_node_consistency leaves in every domain exactly the
\* vocabulary words of the Variable's length, and afterwards every word of
\* every domain (of the store in use and of the snapshots) has that length.
C8_DomainsKeepLength ==
    /\ pc = "ac3" => \A v \in variables : domains[v] = NodeWords(v)
    /\ pc # "enforce_node_consistency" =>
          \A o \in Live(cur, stack) \ {NoObj} : \A v \in variables :
             \A w \in heap[o][v] : Len(w) = v.length

\* C8 witness: the search has forced a singleton, failed below it and
\* restored a snapshot, on a vocabulary holding words of both lengths
C8_Witness ==
    /\ pc = "for" /\ Len(stack) >= 1
    /\ ac3ret.op = "incremental"
    /\ stack[Len(stack)].var \notin DOMAIN assignment
    /\ \E w1, w2 \in words : Len(w1) # Len(w2)

\* C4: consistent(assignment) never raises, and is true exactly when the
\* assigned words are pairwise distinct, agree at the overlaps of assigned
\* Variables, and have the lengths of their Variables.
C4_ConsistentIffConstraints ==
    fn.op = "consistent" =>
        /\ fn.result \in {"True", "False"}
        /\ fn.result = "True" <=>
              /\ \A x, y \in DOMAIN assignment : x # y => assignment[x] # assignment[y]
              /\ \A x, y \in DOMAIN assignment :
                    (x # y /\ overlaps(x, y) # NoOverlap) =>
                       /\ overlaps(x, y)[1] < Len(assignment[x])
                       /\ overlaps(x, y)[2] < Len(assignment[y])
                       /\ assignment[x][overlaps(x, y)[1] + 1]
                             = assignment[y][overlaps(x, y)[2] + 1]
              /\ \A x \in DOMAIN assignment : Len(assignment[x]) = x.length

\* C6: ac3 returns True exactly when no domain is empty when it returns.
C6_Ac3TrueIffNoEmptyDomain ==
    fn.op = "ac3" => (fn.ret <=> \A v \in variables : domains[v] # {})

\* C7: revise(x, y) keeps in domain(x) exactly the words supported in
\* domain(y) at the overlap (all of them when x and y do not overlap),
\* returns whether a word was removed, and changes no other domain.
C7_ReviseKeepsSupported ==
    fn.op = "revise" =>
        LET x == fn.x
            y == fn.y
            o == overlaps(x, y)
        IN  /\ domains[x] = IF o = NoOverlap THEN fn.before[x]
                            ELSE { w \in fn.before[x] :
                                     \E v \in fn.before[y] : w[o[1] + 1] = v[o[2] + 1] }
            /\ fn.revised <=> domains[x] # fn.before[x]
            /\ \A v \in variables \ {x} : domains[v] = fn.before[v]

\* C7 witness: a revise that removed some words of domain(x) and kept others
C7_Witness ==
    /\ fn.op = "revise" /\ fn.revised
    /\ domains[fn.x] # {}

\* C9: select_unassigned_variable returns an unassigned Variable of minimal
\* domain size, with the most neighbors among those of minimal domain size.
C9_SelectMrvThenDegree ==
    fn.op = "select" =>
        LET unassigned == variables \ DOMAIN assignment
            size(v) == Cardinality(domains[v])
            smallest == { v \in unassigned : \A u \in unassigned : size(v) <= size(u) }
        IN  /\ fn.var \in smallest
            /\ \A u \in smallest :
                  Cardinality(neighbors(u)) <= Cardinality(neighbors(fn.var))

\* C9 witness: Variables with different neighbor counts tie on the minimal
\* domain size, and a Variable with a larger domain is unassigned too
C9_Witness ==
    /\ fn.op = "select"
    /\ \E u \in variables \ DOMAIN assignment :
          /\ u # fn.var
          /\ Cardinality(domains[u]) = Cardinality(domains[fn.var])
          /\ Cardinality(neighbors(u)) < Cardinality(neighbors(fn.var))
    /\ \E u \in variables \ DOMAIN assignment :
          Cardinality(domains[u]) > Cardinality(domains[fn.var])

\* the conflicts score of C10: over the neighbors of var that are not in the
\* assignment, the words of their domains that disagree with the candidate
UnassignedConflicts(d, var, a, word) ==
    Cardinality({ p \in UNION { {n} \X d[n] : n \in neighbors(var) \ DOMAIN a } :
                    word[overlaps(var, p[1])[1] + 1]
                       # p[2][overlaps(var, p[1])[2] + 1] })

\* C10: order_domain_values returns every word of domain(var) once, in
\* non-decreasing order of the conflicts counted over the unassigned
\* neighbors only.
C10_OrderByUnassignedConflicts ==
    fn.op = "order" =>
        /\ Range(fn.values) = domains[fn.var]
        /\ Len(fn.values) = Cardinality(domains[fn.var])
        /\ \A i, j \in 1..Len(fn.values) :
              i < j => UnassignedConflicts(domains, fn.var, assignment, fn.values[i])
                       <= UnassignedConflicts(domains, fn.var, assignment, fn.values[j])

\* some Variable's length is the length of no vocabulary word
NoWordFits == \E v \in variables : NodeWords(v) = {}

\* C11: when some Variable's length matches no vocabulary word,
\* enforce_node_consistency leaves that Variable's domain empty, and solve()
\* does not raise and returns None; it does not loop: the first Variable
\* selected has an empty domain, so the only frame of backtrack has no value
\* to try and nothing is ever assigned.
C11_EmptyDomainEndsSearch ==
    NoWordFits =>
        /\ pc = "ac3" => \A v \in variables : NodeWords(v) = {} => domains[v] = {}
        /\ pc # "raised"
        /\ pc = "done" => ret = None
        /\ assignment = EmptyDict
        /\ Len(stack) <= 1
        /\ \A k \in 1..Len(stack) : stack[k].values = <<>>

\* C11 witness: solve() has returned None on a puzzle where one Variable has
\* no word of its length while a Variable crossing it has some
C11_Witness ==
    /\ pc = "done" /\ ret = None
    /\ \E v, u \in variables :
          /\ NodeWords(v) = {} /\ NodeWords(u) # {}
          /\ overlaps(v, u) # NoOverlap

\* the value the global ac3() of solve() returns: ac3 run on the store
\* enforce_node_consistency leaves of the initial store
GlobalAc3Ret ==
    ac3(enforce_node_consistency([var \in variables |-> words]), NoArcs).ret

\* C12: solve() does not look at the result of the global ac3(): when it
\* returns False, backtrack is still called with the empty assignment, and
\* solve() then returns None: it never returns an Assignment and never raises.
C12_FailedPrePassStillSearches ==
    /\ [][(pc = "ac3" /\ ~ac3ret'.ret) =>
              (pc' = "backtrack" /\ stack' = <<>> /\ assignment' = EmptyDict)]_vars
    /\ []((pc = "raised" \/ (pc = "done" /\ ret # None)) => GlobalAc3Ret)
    /\ []((ac3ret.op = "global" /\ ~ac3ret.ret) =>
              pc \in {"backtrack", "for", "returned", "done"})

\* C12 witness: the global ac3() returned False, the search was started
\* and solve() has returned None
C12_Witness ==
    /\ pc = "done" /\ ret = None
    /\ ac3ret.op = "global" /\ ~ac3ret.ret
    /\ ~GlobalAc3Ret

\* one round of simultaneous pruning: every word without support in the
\* domain of some neighbor is dropped
PruneRound(d) ==
    [x \in DOMAIN d |->
        { w \in d[x] : \A y \in neighbors(x) :
            \E v \in d[y] : w[overlaps(x, y)[1] + 1] = v[overlaps(x, y)[2] + 1] }]

\* the largest arc-consistent store inside d; no order of arcs enters its
\* definition
RECURSIVE ArcClosure(_)
ArcClosure(d) == IF PruneRound(d) = d THEN d ELSE ArcClosure(PruneRound(d))

\* C13: when ac3, started on a node-consistent store with the full arc set,
\* runs to an empty worklist and returns True, the store it leaves is the
\* largest arc-consistent store inside the one it started from, whatever the
\* order in which the arcs were seeded and taken.
C13_Ac3ResultIsCanonical ==
    (fn.op = "ac3" /\ ~fn.arcs.given /\ fn.ret) => domains = ArcClosure(fn.before)

\* C13 witness: a successful ac3 on the full arc set that pruned the domain
\* of a Variable and then, because of that, the domain of a neighbor
C13_Witness ==
    /\ fn.op = "ac3" /\ ~fn.arcs.given /\ fn.ret
    /\ \E x \in variables :
          /\ domains[x] # fn.before[x]
          /\ PruneRound(fn.before)[x] = fn.before[x]

\* Variable v takes word w in some full assignment satisfying the length,
\* overlap and all-different constraints
InSomeSolution(v, w) ==
    /\ w \in NodeWords(v)
    /\ Extends(Put(EmptyDict, v, w), variables \ {v})

\* C14: the global ac3() of solve() removes from no domain a word its
\* Variable takes in some solution: such a word of domain(v) before the pass
\* is in domain(v) after it.
C14_Ac3KeepsSolutionWords ==
    [][pc = "ac3" =>
          \A v \in variables : \A w \in domains[v] :
              InSomeSolution(v, w) => w \in domains'[v]]_vars

\* C14 witness: the global pass has pruned words on a puzzle that has a
\* solution
C14_Witness ==
    /\ pc = "backtrack" /\ stack = <<>>
    /\ HasSolution
    /\ \E v \in variables : domains[v] # NodeWords(v)

\* C15: a call of revise or ac3, and every turn of ac3, only removes words:
\* every domain after the step is a subset of the domain before it, so no
\* domain size grows over a sequence of calls.
C15_DomainsOnlyShrink ==
    [][\A v \in variables :
          /\ domains'[v] \subseteq domains[v]
          /\ Cardinality(domains'[v]) <= Cardinality(domains[v])]_vars

\* C15 witness: an ac3 call that removed words from two domains
C15_Witness ==
    /\ fn.op = "ac3"
    /\ \E u, v \in variables :
          /\ u # v
          /\ domains[u] # fn.before[u]
          /\ domains[v] # fn.before[v]

\* C16: after a value passed consistent() and the recursive call below it
\* failed, the Domain Store in force when the next value is tried (or the
\* frame returns) is, Variable by Variable, the store as it was just before
\* that value was tried, whether the incremental ac3 had succeeded or failed.
C16_StoreRestoredPerCandidate ==
    (pc = "for" /\ stack[Len(stack)].before # NoStore) =>
        domains = stack[Len(stack)].before

\* C17: when a call of backtrack returns None, the assignment is the one the
\* call was entered with.
C17_FailureLeavesAssignment ==
    [][(pc = "for" /\ pc' = "returned") =>
          (ret' = None /\ assignment' = stack[Len(stack)].entry)]_vars

\* C17 witness: a nested call that was entered with two Variables assigned
\* has returned None to a frame that is not the outermost one
C17_Witness ==
    /\ pc = "returned" /\ ret = None
    /\ Len(stack) >= 2
    /\ Cardinality(DOMAIN assignment) = Len(stack)
    /\ ac3ret.op = "incremental"

\* the calls of backtrack in progress below the outermost one: a frame for
\* every call inside its loop, and the call being entered
NestedCalls == Len(stack) + (IF pc = "backtrack" THEN 1 ELSE 0) - 1

\* C20: every call of backtrack is entered with one assigned Variable more
\* than its caller was entered with, the Variable selected in a call is not
\* assigned at its entry, and the calls nested below the outermost one are
\* never more than the Variables.
C20_DepthBoundedByVariables ==
    /\ \A k \in 1..Len(stack) :
          /\ Cardinality(DOMAIN stack[k].entry) = k - 1
          /\ stack[k].var \notin DOMAIN stack[k].entry
          /\ k > 1 => DOMAIN stack[k].entry =
                          DOMAIN stack[k - 1].entry \cup {stack[k - 1].var}
    /\ pc = "backtrack" => Cardinality(DOMAIN assignment) = Len(stack)
    /\ pc \in {"backtrack", "for", "returned"} => NestedCalls <= Cardinality(variables)

\* C20 witness: on the ring grid a call is entered with every Variable
\* assigned, as many calls below the outermost one as there are Variables
C20_Witness ==
    /\ pc = "backtrack"
    /\ Cardinality(variables) = 4
    /\ NestedCalls = Cardinality(variables)

\* C18: when a turn of ac3 revised domain(x) against y and left it
\* non-empty, the arcs it put on the worklist are exactly (z, x) for the
\* neighbors z of x other than y, each once; (y, x) is not among them.
C18_RequeueExcludesY ==
    (fn.op = "turn" /\ domains[fn.x] # fn.before[fn.x] /\ domains[fn.x] # {}) =>
        LET added == SubSeq(fn.left, Len(fn.arcs), Len(fn.left))
            wanted == { <<z, fn.x>> : z \in neighbors(fn.x) \ {fn.y} }
        IN  /\ Range(added) = wanted
            /\ Len(added) = Cardinality(wanted)

\* a bound on the turns of ac3 on store d and queue q: every arc of q, and
\* for every word that can be removed the arcs put back after its removal
TurnBound(d, q) ==
    LET RECURSIVE Total(_)
        Total(vs) == IF vs = {} THEN 0
                     ELSE LET v == CHOOSE v \in vs : TRUE IN
                          Cardinality(d[v]) * Cardinality(neighbors(v)) + Total(vs \ {v})
    IN  Len(q) + Total(DOMAIN d)

\* rank of a state of solve(), compared lexicographically: the stage of
\* solve(), then for every depth the values its frame has left (the call being
\* entered counts as more than any frame), then the position in the frame
Fresh == 2 * Cardinality(words) + 2

Level(k) ==
    IF k <= Len(stack) THEN 2 * Len(stack[k].values) + 1
    ELSE IF k = Len(stack) + 1 /\ pc = "backtrack" THEN Fresh
    ELSE 0

Rank ==
    << CASE pc = "enforce_node_consistency" -> 2 [] pc = "ac3" -> 1 [] OTHER -> 0 >>
    \o [k \in 1..(Cardinality(variables) + 1) |-> Level(k)]
    \o << CASE pc = "returned" -> 2 [] pc \in {"for", "backtrack"} -> 1 [] OTHER -> 0 >>

LexLess(s, t) ==
    \E i \in 1..Len(s) : s[i] < t[i] /\ \A j \in 1..(i - 1) : s[j] = t[j]

\* C19: solve() terminates. Every step of solve() and backtrack lowers the
\* rank, which cannot fall for ever; a state that is not final always has a
\* next step; and every ac3 call, the global one and the one made for a
\* consistent value, ends within TurnBound turns of its while loop.
C19_SolveTerminates ==
    /\ [][LexLess(Rank', Rank)]_vars
    /\ [](pc \in {"enforce_node_consistency", "ac3", "backtrack", "returned",
                   "done", "raised"}
           \/ (pc = "for" /\ stack # <<>>))
    /\ [](pc = "ac3" => Ac3Turns(domains, OverlapKeys) <= TurnBound(domains, OverlapKeys))
    /\ []((pc = "for" /\ stack[Len(stack)].values # <<>>) =>
             LET var == stack[Len(stack)].var
                 value == Head(stack[Len(stack)].values)
                 forced == [domains EXCEPT ![var] = {value}]
                 q == get_neighbors_overlap_queue(var).queue
             IN  consistent(Put(assignment, var, value)) = "True" =>
                    Ac3Turns(forced, q) <= TurnBound(forced, q))

\* C19 witness: solve() has returned an Assignment for the ring grid, after
\* a search four frames deep that ran incremental ac3
C19_Witness ==
    /\ pc = "done"
    /\ ac3ret.op = "incremental"
    /\ Cardinality(variables) = 4
    /\ ret = "Assignment"

====
